---- MODULE Spec2Model ----
(***************************************************************************)
(* A model of deep-vector-quantization's model.py: the nearest-neighbour   *)
(* quantizer VQVAEQuantize (k-means seeding, distance expansion, argmax,   *)
(* straight-through estimator), the Gumbel-softmax quantizer, the VQVAE    *)
(* constructor and forward pass (tensor shapes) and configure_optimizers.  *)
(*                                                                         *)
(* Tensors hold integers.  A real value x is held as x * Unit, so that the *)
(* cluster means k-means computes are exact.  Autograd is modelled by dual *)
(* numbers: a scalar is [v |-> value, g |-> derivative per leaf].          *)
(***************************************************************************)
EXTENDS Integers, Sequences, FiniteSets, TLC

\* ------------------------------------------------------------------ bounds
NEmbed == 2          \* n_embed of the modelled quantizers
MaxCalls == 3        \* forward calls of one quantizer instance
MaxSteps == 2        \* optimizer steps of one run

Dims == 1..2         \* embedding_dim = 2
Chans == 1..2        \* num_hiddens = 2
Vals == -1..1        \* element values of inputs and codebooks (SpecNN)
Locs == 1..2         \* B*H*W = 2 flattened locations (SpecNN)
Codes == 0..(NEmbed - 1)

\* ------------------------------------------------------- program constants
SampleCap == 20000   \* rp[:20000]
KMeansIter == 10     \* kmeans2's iteration count (its default, not overridden)
CommitDen == 4       \* commitment_cost = 0.25 = 1 / CommitDen

VARIABLES
  training,          \* nn.Module.training of the quantizer
  data_initialized,  \* the registered buffer, 0 or 1
  embed,             \* embed.weight: code index -> vector
  proj,              \* proj's weight and bias
  ret,               \* what the last forward call computed and returned
  loss_pending,      \* a training_step loss awaits backward and optimizer.step
  hist,              \* history: counts of calls, seedings, optimizer steps
  straight_through,  \* GumbelQuantize's constructor argument
  vq_flavor,         \* args.vq_flavor
  pc,                \* where VQVAE.__init__ stands
  encoder,           \* the submodules __init__ has registered so far
  quantizer,
  decoder,
  shapes,            \* the tensor shapes of the last VQVAE.forward
  extra,             \* modules a subclass of VQVAE registers besides
  opt_pc,            \* where configure_optimizers stands
  visited,           \* (module, parameter) pairs its loops have handled
  decay,
  no_decay,
  optimizer

qvars == <<training, data_initialized, embed, proj, ret, loss_pending, hist>>

nvars == <<vq_flavor, pc, encoder, quantizer, decoder, shapes>>

ovars == <<extra, opt_pc, visited, decay, no_decay, optimizer>>

vars == <<training, data_initialized, embed, proj, ret, loss_pending, hist,
          straight_through, vq_flavor, pc, encoder, quantizer, decoder, shapes,
          extra, opt_pc, visited, decay, no_decay, optimizer>>

\* ----------------------------------------------------------------- helpers
RECURSIVE SumTo(_, _)
SumTo(f, n) == IF n = 0 THEN 0 ELSE f[n] + SumTo(f, n - 1)

Min(a, b) == IF a < b THEN a ELSE b

RECURSIVE Gcd(_, _)
Gcd(a, b) == IF b = 0 THEN a ELSE Gcd(b, a % b)

RECURSIVE LcmUpTo(_)
LcmUpTo(n) == IF n <= 1 THEN 1 ELSE (LcmUpTo(n - 1) * n) \div Gcd(LcmUpTo(n - 1), n)

Dot(a, b) == SumTo([d \in 1..Len(a) |-> a[d] * b[d]], Len(a))

SumSq(a) == Dot(a, a)

Injections(S, T) == {f \in [S -> T] : \A x, y \in S : x # y => f[x] # f[y]}

\* ------------------------------------------------------- forward: project
\* self.proj(z), permute, reshape: one embedding_dim vector per location.
flatten(P, z) ==
  [i \in 1..Len(z) |->
     [d \in 1..Len(P.b) |->
        SumTo([c \in 1..Len(z[i]) |-> P.w[d][c] * z[i][c]], Len(z[i])) + P.b[d]]]

\* ---------------------------------------------------------- forward: seed
\* flatten[rp[:20000]]
Sample(flat, rp) == [j \in 1..Min(Len(flat), SampleCap) |-> flat[rp[j]]]

SqDist(a, b) == SumSq([d \in 1..Len(a) |-> a[d] - b[d]])

\* The first index holding the least value of a row.
MinIndex(row) ==
  CHOOSE k \in DOMAIN row :
    /\ \A m \in DOMAIN row : row[k] <= row[m]
    /\ \A m \in DOMAIN row : m < k => row[k] < row[m]

\* scipy's vq: the nearest code of each row, the first one among equals.
vq(data, cb) ==
  [j \in 1..Len(data) |-> MinIndex([k \in DOMAIN cb |-> SqDist(data[j], cb[k])])]

\* A cluster's mean, or the old code of an empty cluster.
update_cluster_means(data, cb, label) ==
  [k \in DOMAIN cb |->
     IF \A j \in 1..Len(data) : label[j] # k THEN cb[k]
     ELSE [d \in 1..Len(cb[k]) |->
             SumTo([j \in 1..Len(data) |-> IF label[j] = k THEN data[j][d] ELSE 0],
                   Len(data))
               \div Cardinality({j \in 1..Len(data) : label[j] = k})]]

\* kmeans2's loop, n iterations left.  An iteration that leaves the codes as
\* they are is followed only by iterations that do the same.
RECURSIVE Lloyd(_, _, _)
LloydNext(data, cb, new, n) == IF new = cb THEN cb ELSE Lloyd(data, new, n - 1)

Lloyd(data, cb, n) ==
  IF n = 0 THEN cb
  ELSE LloydNext(data, cb, update_cluster_means(data, cb, vq(data, cb)), n)

\* minit='points': the codes start as the distinct rows idx picks.
kpoints(data, idx) == [k \in DOMAIN idx |-> data[idx[k]]]

\* kmeans2(data, k, minit='points') from the initial codes init
kmeans2(data, init) == Lloyd(data, init, KMeansIter)

\* ------------------------------------------------------ forward: quantize
\* Mutant: the cross term of the expansion is taken once.
dist_single_cross(flat, W) ==
  [i \in 1..Len(flat) |->
     [k \in DOMAIN W |-> SumSq(flat[i]) - Dot(flat[i], W[k]) + SumSq(W[k])]]

\* dist, by the expansion |a|^2 - 2 a.b + |b|^2
dist(flat, W) ==
  [i \in 1..Len(flat) |->
     [k \in DOMAIN W |-> SumSq(flat[i]) - 2 * Dot(flat[i], W[k]) + SumSq(W[k])]]

\* tensor.max(1): the index of the first maximal value of a row.
MaxIndex(row) ==
  CHOOSE k \in DOMAIN row :
    /\ \A m \in DOMAIN row : row[m] <= row[k]
    /\ \A m \in DOMAIN row : m < k => row[m] < row[k]

\* _, ind = (-dist).max(1)
argmax_neg(d) == [i \in 1..Len(d) |-> MaxIndex([k \in DOMAIN d[i] |-> -d[i][k]])]

\* ---------------------------------------------------------------- autograd
\* The leaves of the graph are numbered: first the elements of z_e (n
\* locations), then the elements of embed.weight.
NDims == Cardinality(Dims)

ZeLeaf(i, d) == (i - 1) * NDims + d

EmbedLeaf(n, k, d) == n * NDims + k * NDims + d

Leaves(n, W) == 1..(n * NDims + Cardinality(DOMAIN W) * NDims)

Leaf(L, l0, v) == [v |-> v, g |-> [l \in L |-> IF l = l0 THEN 1 ELSE 0]]

DAdd(a, b) == [v |-> a.v + b.v, g |-> [l \in DOMAIN a.g |-> a.g[l] + b.g[l]]]

DSub(a, b) == [v |-> a.v - b.v, g |-> [l \in DOMAIN a.g |-> a.g[l] - b.g[l]]]

DMul(a, b) ==
  [v |-> a.v * b.v, g |-> [l \in DOMAIN a.g |-> a.v * b.g[l] + b.v * a.g[l]]]

DScale(c, a) == [v |-> c * a.v, g |-> [l \in DOMAIN a.g |-> c * a.g[l]]]

detach(a) == [v |-> a.v, g |-> [l \in DOMAIN a.g |-> 0]]

\* z_e as a leaf of the graph below the quantizer
z_e_leaf(flat, L) ==
  [i \in 1..Len(flat) |-> [d \in Dims |-> Leaf(L, ZeLeaf(i, d), flat[i][d])]]

\* F.embedding(embed_id, self.embed.weight)
embed_code(W, embed_id, L) ==
  [i \in 1..Len(embed_id) |->
     [d \in Dims |-> Leaf(L, EmbedLeaf(Len(embed_id), embed_id[i], d), W[embed_id[i]][d])]]

\* Mutant: the difference is not detached.
ste_attached(ze, zq) ==
  [i \in DOMAIN ze |-> [d \in Dims |-> DAdd(ze[i][d], DSub(zq[i][d], ze[i][d]))]]

\* Mutant: the detached term adds z_e instead of subtracting it.
ste_sum(ze, zq) ==
  [i \in DOMAIN ze |-> [d \in Dims |-> DAdd(ze[i][d], detach(DAdd(zq[i][d], ze[i][d])))]]

\* z_q = z_e + (z_q - z_e).detach()
ste(ze, zq) ==
  [i \in DOMAIN ze |-> [d \in Dims |-> DAdd(ze[i][d], detach(DSub(zq[i][d], ze[i][d])))]]

RECURSIVE DSum(_, _, _)
DSum(f, n, zero) == IF n = 0 THEN zero ELSE DAdd(f[n], DSum(f, n - 1, zero))

\* diff, times CommitDen * N * embedding_dim (the two means' common divisor):
\* (z_q.detach() - z_e)^2 + CommitDen * (z_q - z_e.detach())^2, summed.
DSquare(a) == DMul(a, a)

diff_term(zq, ze) ==
  DAdd(DSquare(DSub(detach(zq), ze)), DScale(CommitDen, DSquare(DSub(zq, detach(ze)))))

diff_scaled(ze, zq, zero) ==
  DSum([i \in DOMAIN ze |->
          DSum([d \in Dims |-> diff_term(zq[i][d], ze[i][d])], NDims, zero)],
       Len(ze), zero)

\* Lines 56-63: the returned (z_q, diff, ind), with what the call computed.
outputs(flat, ind, ze, zq, L) ==
  [z_e |-> flat, ind |-> ind,
   z_q |-> ste(ze, zq),
   diff |-> diff_scaled(ze, zq, [v |-> 0, g |-> [l \in L |-> 0]])]

gather(flat, W, ind, L) ==
  outputs(flat, ind, z_e_leaf(flat, L), embed_code(W, ind, L), L)

\* Lines 48-63 on the codebook W the call computes with.
quantize(flat, W) == gather(flat, W, argmax_neg(dist(flat, W)), Leaves(Len(flat), W))

NoCall == [called |-> FALSE]

\* Mutants of the seeding condition: the flag is not read; the mode is not read.
needs_seeding_ignoring_flag == training

needs_seeding_ignoring_mode == data_initialized = 0

\* The seeding condition of line 40.
needs_seeding == training /\ data_initialized = 0

\* self.data_initialized.fill_(1), in the seeding branch only
flag_after(seeding) == IF seeding THEN 1 ELSE data_initialized

\* VQVAEQuantize.forward on the flattened projection of z.  data is the sample
\* flatten[rp[:20000]] and init the rows kmeans2 draws from it for its initial
\* codes (both used only when seeding).  ret keeps, with the returned tuple,
\* the mode and the flag the call was entered with.
forward(flat, data, init) ==
  /\ hist.calls < MaxCalls
  /\ \E W \in {IF needs_seeding THEN kmeans2(data, init) ELSE embed} :
      /\ embed' = W
      /\ data_initialized' = flag_after(needs_seeding)
      /\ ret' = [called |-> TRUE,
                 mode |-> IF training THEN "train" ELSE "eval",
                 flag_before |-> data_initialized,
                 seeded |-> needs_seeding,
                 out |-> quantize(flat, W)]
      /\ hist' = [hist EXCEPT
                    !.calls = @ + 1,
                    !.train_unset =
                       @ + (IF training /\ data_initialized = 0 THEN 1 ELSE 0),
                    !.seedings = @ + (IF needs_seeding THEN 1 ELSE 0)]
      /\ UNCHANGED <<training, proj, straight_through, nvars, ovars>>

\* module.train() / module.eval(), called by the training loop's driver
Train == /\ ~loss_pending
         /\ training' = TRUE
         /\ UNCHANGED <<data_initialized, embed, proj, ret, loss_pending, hist>>
         /\ UNCHANGED <<straight_through, nvars, ovars>>

Eval == /\ ~loss_pending
        /\ training' = FALSE
        /\ UNCHANGED <<data_initialized, embed, proj, ret, loss_pending, hist>>
        /\ UNCHANGED <<straight_through, nvars, ovars>>

Perms(n) == Injections(1..n, 1..n)

\* One call of VQVAEQuantize.forward.  kmeans2 draws n_embed distinct rows, so a
\* seeding call needs at least n_embed flattened vectors.
\* The samples torch.randperm can produce, each with the initial codes
\* kmeans2's random draw of n_embed distinct rows can produce from it.
Seeds(flat) ==
  {<<Sample(flat, rp), kpoints(Sample(flat, rp), idx)>> :
     rp \in Perms(Len(flat)),
     idx \in Injections(Codes, 1..Min(Len(flat), SampleCap))}

Call(z) ==
  IF hist.calls >= MaxCalls THEN FALSE
  ELSE \E flat \in {flatten(proj, z)} :
         IF needs_seeding
         THEN /\ Len(flat) >= NEmbed
              /\ \E s \in Seeds(flat) : forward(flat, s[1], s[2])
         ELSE forward(flat, <<>>, <<>>)

\* A forward call outside a training batch (self.quantizer(z) in VQVAE.forward).
Forward(z) == /\ ~loss_pending
              /\ Call(z)
              /\ UNCHANGED loss_pending

\* Mutant: a step whose forward call runs in whatever mode the module is in.
training_step_in_any_mode(z) == /\ ~loss_pending
                                /\ hist.steps < MaxSteps
                                /\ Call(z)
                                /\ loss_pending' = TRUE

\* VQVAE.training_step: the driver calls it in training mode and then runs
\* backward and optimizer.step on the loss it returns.
training_step(z) == /\ training
                    /\ ~loss_pending
                    /\ hist.steps < MaxSteps
                    /\ Call(z)
                    /\ loss_pending' = TRUE

\* VQVAE.validation_step: the driver calls it in evaluation mode, without
\* gradients; cluster_use counts the codes the batch selected.
validation_step(z) == /\ ~training
                      /\ ~loss_pending
                      /\ Call(z)
                      /\ UNCHANGED loss_pending

cluster_use ==
  IF ret.called THEN Cardinality({ret.out.ind[i] : i \in DOMAIN ret.out.ind}) ELSE 0

Sign(x) == IF x > 0 THEN 1 ELSE IF x < 0 THEN -1 ELSE 0

\* embed.weight.grad after loss.backward(), loss = recon_loss + latent_loss:
\* the latent loss's own gradient plus the reconstruction loss's gradient u
\* (per element of the returned z_q) chained through z_q.
embed_grad(u) ==
  [k \in DOMAIN embed |->
     [d \in Dims |->
        ret.out.diff.g[EmbedLeaf(Len(ret.out.z_q), k, d)]
          + SumTo([i \in DOMAIN ret.out.z_q |->
                     SumTo([e \in Dims |->
                              u * ret.out.z_q[i][e].g[EmbedLeaf(Len(ret.out.z_q), k, d)]],
                           NDims)],
                  Len(ret.out.z_q))]]

Identity == [w |-> <<(<<1, 0>>), (<<0, 1>>)>>, b |-> <<0, 0>>]

Projections == {Identity, [w |-> <<(<<1, 1>>), (<<0, -1>>)>>, b |-> <<0, 0>>]}

\* optimizer.step() of the AdamW built by configure_optimizers, after
\* backward: each codebook element moves one step against the sign of its
\* gradient (embed.weight is in the group without weight decay); proj is
\* updated too.
optimizer_step(u) ==
  /\ loss_pending
  /\ \E g \in {embed_grad(u)} :
     \E W \in {[k \in DOMAIN embed |-> [d \in Dims |-> embed[k][d] - Sign(g[k][d])]]} :
      /\ embed' = W
      /\ proj' \in Projections
      /\ loss_pending' = FALSE
      /\ hist' = [hist EXCEPT !.steps = @ + 1,
                              !.updates = @ + (IF W # embed THEN 1 ELSE 0)]
      /\ UNCHANGED <<training, data_initialized, ret, straight_through, nvars, ovars>>

NoHist == [calls |-> 0, train_unset |-> 0, seedings |-> 0, steps |-> 0, updates |-> 0]

\* The variables of the other specifications, at rest.
NoModel == /\ vq_flavor = "vqvae"
           /\ pc = "new"
           /\ encoder = <<>>
           /\ quantizer = "none"
           /\ decoder = <<>>
           /\ shapes = NoCall

NoOptimizer == /\ extra = <<>>
               /\ opt_pc = "idle"
               /\ visited = 0
               /\ decay = {}
               /\ no_decay = {}
               /\ optimizer = "none"

\* ------------------------------------------------- SpecNN: forward, no seeding
AllCodebooks == [Codes -> [Dims -> Vals]]

AllInputs == [Locs -> [Chans -> Vals]]

InitNN == /\ training = FALSE
          /\ data_initialized = 1
          /\ embed \in AllCodebooks
          /\ proj \in Projections
          /\ ret = NoCall
          /\ loss_pending = FALSE
          /\ hist = NoHist
          /\ straight_through = TRUE
          /\ NoModel
          /\ NoOptimizer

NextNN == \E z \in AllInputs : hist.calls = 0 /\ Forward(z)

SpecNN == InitNN /\ [][NextNN]_vars

\* ------------------------------------------- SpecQ: one quantizer's lifetime
SeedLocs == 1..3      \* B*H*W = 3 flattened locations (SpecQ)

Unit == LcmUpTo(Cardinality(SeedLocs))

\* The encoder outputs fed to the quantizer: three locations, all alike, two
\* alike, all different.
Batches ==
  {<<(<<0, 0>>), (<<0, 0>>), (<<0, 0>>)>>,
   <<(<<0, 0>>), (<<Unit, Unit>>), (<<Unit, Unit>>)>>,
   <<(<<Unit, 0>>), (<<0, 0>>), (<<Unit, Unit>>)>>,
   <<(<<Unit, Unit>>), (<<Unit, 0>>), (<<Unit, 0>>)>>}

InitCodebooks == {[k \in Codes |-> <<k, 1 - k>>]}

InitQ == /\ training = TRUE
         /\ data_initialized = 0
         /\ embed \in InitCodebooks
         /\ proj = Identity
         /\ ret = NoCall
         /\ loss_pending = FALSE
         /\ hist = NoHist
         /\ straight_through = TRUE
         /\ NoModel
         /\ NoOptimizer

NextQ == \/ Train
         \/ Eval
         \/ \E z \in Batches : Forward(z)
         \/ \E z \in Batches : training_step(z)
         \/ \E z \in Batches : validation_step(z)
         \/ \E u \in {-1, 1} : optimizer_step(u)

SpecQ == InitQ /\ [][NextQ]_vars

\* ------------------------------------------------ SpecG: GumbelQuantize
\* Probabilities are held in units of 1 / ProbUnit.
ProbUnit == 4

\* softmax((logits + gumbels) / tau): the Gumbel noise has full support, so
\* the sample is any point of the open simplex, whatever the logits are.
Simplex ==
  {y \in [Codes -> 1..ProbUnit] :
     SumTo([n \in 1..NEmbed |-> y[n - 1]], NEmbed) = ProbUnit}

one_hot(index) == [n \in Codes |-> IF n = index THEN ProbUnit ELSE 0]

\* Mutant: the hardness is the configured flag in both modes.
hard_as_configured == straight_through

\* hard = self.straight_through if self.training else True
hard == IF training THEN straight_through ELSE TRUE

\* F.gumbel_softmax(logits, tau, dim=1, hard) at one location, y_soft being
\* the sample: y_hard - y_soft.detach() + y_soft when hard, y_soft otherwise.
gumbel_softmax(y_soft, h) ==
  IF h THEN [n \in Codes |-> one_hot(MaxIndex(y_soft))[n] - y_soft[n] + y_soft[n]]
  ELSE y_soft

\* einsum('b n h w, n d -> b d h w', soft_one_hot, self.embed.weight)
einsum(soft_one_hot, W) ==
  [i \in DOMAIN soft_one_hot |->
     [d \in Dims |->
        SumTo([n \in 1..NEmbed |-> soft_one_hot[i][n - 1] * W[n - 1][d]], NEmbed)]]

\* proj of GumbelQuantize: one logit per code
LogitProj ==
  [w |-> [n \in 1..NEmbed |-> [c \in Chans |-> IF c = 1 THEN 1 ELSE n - 2]],
   b |-> [n \in 1..NEmbed |-> 0]]

\* GumbelQuantize.forward(z); y is the Gumbel-softmax sample per location.
\* The returned diff (a KL divergence, through log) is not represented.
gumbel_forward(z, y) ==
  /\ hist.calls < MaxCalls
  /\ \E soft_one_hot \in {[i \in DOMAIN z |-> gumbel_softmax(y[i], hard)]} :
       ret' = [called |-> TRUE,
               mode |-> IF training THEN "train" ELSE "eval",
               hard |-> hard,
               logits |-> flatten(proj, z),
               soft_one_hot |-> soft_one_hot,
               z_q |-> einsum(soft_one_hot, embed),
               ind |-> [i \in DOMAIN z |-> MaxIndex(soft_one_hot[i])]]
  /\ hist' = [hist EXCEPT !.calls = @ + 1]
  /\ UNCHANGED <<training, data_initialized, embed, proj, loss_pending>>
  /\ UNCHANGED <<straight_through, nvars, ovars>>

GumbelInputs == {<<(<<0, 0>>), (<<1, -1>>)>>, <<(<<1, 1>>), (<<-1, 0>>)>>}

InitG == /\ training = TRUE
         /\ data_initialized = 0
         /\ embed \in InitCodebooks
         /\ proj = LogitProj
         /\ ret = NoCall
         /\ loss_pending = FALSE
         /\ hist = NoHist
         /\ straight_through \in BOOLEAN
         /\ NoModel
         /\ NoOptimizer

NextG == \/ Train
         \/ Eval
         \/ \E z \in GumbelInputs : \E y \in [DOMAIN z -> Simplex] : gumbel_forward(z, y)

SpecG == InitG /\ [][NextG]_vars

\* ----------------------------------------- SpecNet: VQVAE.__init__, forward
in_channel == 3

num_hiddens == 128

num_residual_hiddens == 32

embedding_dim == 64

num_embeddings == 512

Conv2d(cin, cout, k, s, p) ==
  [cls |-> "Conv2d", cin |-> cin, cout |-> cout, k |-> k, s |-> s, p |-> p]

ConvTranspose2d(cin, cout, k, s, p) ==
  [cls |-> "ConvTranspose2d", cin |-> cin, cout |-> cout, k |-> k, s |-> s, p |-> p]

ReLU == [cls |-> "ReLU"]

ResBlock(cin, channel) ==
  [cls |-> "ResBlock",
   conv |-> <<Conv2d(cin, channel, 3, 1, 1), ReLU, Conv2d(channel, cin, 1, 1, 0)>>]

\* Mutant: the first convolution of the encoder is built without padding.
encoder_layers_unpadded ==
  <<Conv2d(in_channel, num_hiddens \div 2, 4, 2, 0), ReLU,
    Conv2d(num_hiddens \div 2, num_hiddens, 4, 2, 1), ReLU,
    Conv2d(num_hiddens, num_hiddens, 3, 1, 1), ReLU,
    ResBlock(num_hiddens, num_residual_hiddens),
    ResBlock(num_hiddens, num_residual_hiddens)>>

\* self.encoder = nn.Sequential(...)
encoder_layers ==
  <<Conv2d(in_channel, num_hiddens \div 2, 4, 2, 1), ReLU,
    Conv2d(num_hiddens \div 2, num_hiddens, 4, 2, 1), ReLU,
    Conv2d(num_hiddens, num_hiddens, 3, 1, 1), ReLU,
    ResBlock(num_hiddens, num_residual_hiddens),
    ResBlock(num_hiddens, num_residual_hiddens)>>

\* self.decoder = nn.Sequential(...)
decoder_layers ==
  <<Conv2d(embedding_dim, num_hiddens, 3, 1, 1), ReLU,
    ResBlock(num_hiddens, num_residual_hiddens),
    ResBlock(num_hiddens, num_residual_hiddens),
    ConvTranspose2d(num_hiddens, num_hiddens \div 2, 4, 2, 1), ReLU,
    ConvTranspose2d(num_hiddens \div 2, in_channel, 4, 2, 1)>>

\* Mutant: an unknown selector falls back to the nearest-neighbour quantizer.
QuantizerModule_with_default(flavor) ==
  IF flavor = "gumbel" THEN "GumbelQuantize" ELSE "VQVAEQuantize"

\* {'vqvae': VQVAEQuantize, 'gumbel': GumbelQuantize}[args.vq_flavor]
QuantizerModule(flavor) ==
  CASE flavor = "vqvae" -> "VQVAEQuantize"
    [] flavor = "gumbel" -> "GumbelQuantize"
    [] OTHER -> "KeyError"

\* Lines 132-145: the encoder is registered first.
init_encoder ==
  /\ pc = "new"
  /\ encoder' = encoder_layers
  /\ pc' = "encoder"
  /\ UNCHANGED <<vq_flavor, quantizer, decoder, shapes, straight_through, qvars, ovars>>

\* Lines 147-151: the lookup raises KeyError and __init__ ends there, or the
\* class it names is instantiated.
init_quantizer ==
  /\ pc = "encoder"
  /\ IF QuantizerModule(vq_flavor) = "KeyError"
     THEN pc' = "KeyError" /\ UNCHANGED quantizer
     ELSE pc' = "quantizer" /\ quantizer' = QuantizerModule(vq_flavor)
  /\ UNCHANGED <<vq_flavor, encoder, decoder, shapes, straight_through, qvars, ovars>>

\* Lines 153-161: the decoder is registered and __init__ returns the model.
init_decoder ==
  /\ pc = "quantizer"
  /\ decoder' = decoder_layers
  /\ pc' = "constructed"
  /\ UNCHANGED <<vq_flavor, encoder, quantizer, shapes, straight_through, qvars, ovars>>

ShapeError == <<"error">>

\* nn.Conv2d on a shape [B, C, H, W]
conv2d_shape(l, x) ==
  IF x = ShapeError \/ x[2] # l.cin \/ x[3] + 2 * l.p < l.k \/ x[4] + 2 * l.p < l.k
  THEN ShapeError
  ELSE <<x[1], l.cout, (x[3] + 2 * l.p - l.k) \div l.s + 1,
         (x[4] + 2 * l.p - l.k) \div l.s + 1>>

\* nn.ConvTranspose2d on a shape [B, C, H, W]
conv_transpose2d_shape(l, x) ==
  IF x = ShapeError \/ x[2] # l.cin
  THEN ShapeError
  ELSE <<x[1], l.cout, (x[3] - 1) * l.s - 2 * l.p + l.k,
         (x[4] - 1) * l.s - 2 * l.p + l.k>>

RECURSIVE sequential_shape(_, _, _)
\* ResBlock.forward: out = self.conv(x); out += x; relu
resblock_shape(l, x) ==
  IF sequential_shape(l.conv, x, Len(l.conv)) = x THEN x ELSE ShapeError

layer_shape(l, x) ==
  CASE l.cls = "Conv2d" -> conv2d_shape(l, x)
    [] l.cls = "ConvTranspose2d" -> conv_transpose2d_shape(l, x)
    [] l.cls = "ResBlock" -> resblock_shape(l, x)
    [] OTHER -> x

\* nn.Sequential: the first n layers, in order
sequential_shape(layers, x, n) ==
  IF n = 0 THEN x ELSE layer_shape(layers[n], sequential_shape(layers, x, n - 1))

permute(x, order) == [j \in 1..Len(order) |-> x[order[j] + 1]]

\* VQVAEQuantize.forward on shapes: the returned (z_q, ind)
vq_shapes(z) ==
  IF z = ShapeError \/ conv2d_shape(Conv2d(num_hiddens, embedding_dim, 1, 1, 0), z) = ShapeError
  THEN [z_q |-> ShapeError, ind |-> ShapeError]
  ELSE [z_q |-> permute(permute(conv2d_shape(Conv2d(num_hiddens, embedding_dim, 1, 1, 0), z),
                                <<0, 2, 3, 1>>),
                        <<0, 3, 1, 2>>),
        ind |-> <<z[1], z[3], z[4]>>]

\* GumbelQuantize.forward on shapes: logits [B, n_embed, H, W] contracted with
\* embed.weight [n_embed, embedding_dim]; ind drops dim 1.
gumbel_shapes(z) ==
  IF z = ShapeError \/ conv2d_shape(Conv2d(num_hiddens, num_embeddings, 1, 1, 0), z) = ShapeError
  THEN [z_q |-> ShapeError, ind |-> ShapeError]
  ELSE [z_q |-> <<z[1], embedding_dim, z[3], z[4]>>,
        ind |-> <<z[1], z[3], z[4]>>]

quantizer_shapes(z) ==
  IF quantizer = "GumbelQuantize" THEN gumbel_shapes(z) ELSE vq_shapes(z)

forward_shapes(x, z, q) ==
  [called |-> TRUE, x |-> x, z |-> z, z_q |-> q.z_q, ind |-> q.ind,
   x_hat |-> sequential_shape(decoder, q.z_q, Len(decoder))]

\* VQVAE.forward(x) of a constructed model
vqvae_forward(x) ==
  /\ pc = "constructed"
  /\ \E z \in {sequential_shape(encoder, x, Len(encoder))} :
       shapes' = forward_shapes(x, z, quantizer_shapes(z))
  /\ UNCHANGED <<vq_flavor, pc, encoder, quantizer, decoder, straight_through, qvars, ovars>>

MaxBatch == 2

MaxSide == 9

Images == {<<b, in_channel, h, w>> : b \in 1..MaxBatch, h \in 1..MaxSide, w \in 1..MaxSide}

Flavors == {"vqvae", "gumbel", "hard", "soft", "VQVAE"}

Resting == /\ training = TRUE
           /\ data_initialized = 0
           /\ embed \in InitCodebooks
           /\ proj = Identity
           /\ ret = NoCall
           /\ loss_pending = FALSE
           /\ hist = NoHist
           /\ straight_through = TRUE

InitNet == /\ Resting
           /\ vq_flavor \in Flavors
           /\ pc = "new"
           /\ encoder = <<>>
           /\ quantizer = "none"
           /\ decoder = <<>>
           /\ shapes = NoCall
           /\ NoOptimizer

NextNet == \/ init_encoder
           \/ init_quantizer
           \/ init_decoder
           \/ \E x \in Images : vqvae_forward(x)

SpecNet == InitNet /\ [][NextNet]_vars

\* ------------------------------------------- SpecOpt: configure_optimizers
IndexName(j) == <<"0", "1", "2", "3", "4", "5", "6", "7", "8", "9">>[j + 1]

\* named_modules of an nn.Sequential's children, in registration order; a
\* ResBlock holds the nn.Sequential conv.
RECURSIVE children_modules(_, _, _)
layer_modules(name, l) ==
  IF l.cls = "ResBlock"
  THEN <<[name |-> name, cls |-> "ResBlock"],
         [name |-> Append(name, "conv"), cls |-> "Sequential"]>>
         \o children_modules(Append(name, "conv"), l.conv, Len(l.conv))
  ELSE <<[name |-> name, cls |-> l.cls]>>

children_modules(name, layers, n) ==
  IF n = 0 THEN <<>>
  ELSE children_modules(name, layers, n - 1)
         \o layer_modules(Append(name, IndexName(n - 1)), layers[n])

\* self.named_modules(): the model, then encoder, quantizer and decoder as
\* __init__ registered them, then what a subclass registered.
named_modules ==
  <<[name |-> <<>>, cls |-> "VQVAE"], [name |-> <<"encoder">>, cls |-> "Sequential"]>>
    \o children_modules(<<"encoder">>, encoder, Len(encoder))
    \o <<[name |-> <<"quantizer">>, cls |-> quantizer],
          [name |-> <<"quantizer", "proj">>, cls |-> "Conv2d"],
          [name |-> <<"quantizer", "embed">>, cls |-> "Embedding"],
          [name |-> <<"decoder">>, cls |-> "Sequential"]>>
    \o children_modules(<<"decoder">>, decoder, Len(decoder))
    \o extra

\* The parameters a module of a class registers itself.
own_parameters(cls) ==
  CASE cls \in {"Conv2d", "ConvTranspose2d", "Linear", "EmbedConv"} -> <<"weight", "bias">>
    [] cls \in {"LayerNorm", "BatchNorm2d", "GroupNorm"} -> <<"weight", "bias">>
    [] cls = "Embedding" -> <<"weight">>
    [] OTHER -> <<>>

IsPrefix(a, b) == Len(a) <= Len(b) /\ SubSeq(b, 1, Len(a)) = a

\* The (mn, m, pn) the two loops visit: for each module, the parameters of
\* the module and of its descendants, named relative to it.
RECURSIVE pairs_of(_, _, _, _)
pairs_of(mods, m, n, acc) ==
  IF n = 0 THEN acc
  ELSE pairs_of(mods, m, n - 1,
         IF IsPrefix(m.name, mods[n].name)
         THEN [j \in 1..Len(own_parameters(mods[n].cls)) |->
                 [mn |-> m.name, cls |-> m.cls,
                  pn |-> Append(SubSeq(mods[n].name, Len(m.name) + 1, Len(mods[n].name)),
                                own_parameters(mods[n].cls)[j])]] \o acc
         ELSE acc)

RECURSIVE walk_of(_, _)
walk_of(mods, n) ==
  IF n = 0 THEN <<>>
  ELSE walk_of(mods, n - 1) \o pairs_of(mods, mods[n], Len(mods), <<>>)

walk == walk_of(named_modules, Len(named_modules))

\* isinstance(m, classes); EmbedConv is a subclass of nn.Conv2d.
isinstance(cls, classes) ==
  cls \in classes \/ (cls = "EmbedConv" /\ "Conv2d" \in classes)

whitelist_weight_modules == {"Linear", "Conv2d", "ConvTranspose2d"}

blacklist_weight_modules == {"LayerNorm", "BatchNorm2d", "Embedding"}

\* pn.endswith(...): the last component of the dotted name decides.
endswith(pn, suffix) == pn[Len(pn)] = suffix

\* Mutant: the branch of the blacklisted modules is missing.
classify_without_blacklist(pr) ==
  IF endswith(pr.pn, "bias") THEN "no_decay"
  ELSE IF endswith(pr.pn, "weight") /\ isinstance(pr.cls, whitelist_weight_modules)
  THEN "decay"
  ELSE "neither"

\* Lines 209-217: the set one (module, parameter) pair adds its name to.
classify(pr) ==
  IF endswith(pr.pn, "bias") THEN "no_decay"
  ELSE IF endswith(pr.pn, "weight") /\ isinstance(pr.cls, whitelist_weight_modules)
  THEN "decay"
  ELSE IF endswith(pr.pn, "weight") /\ isinstance(pr.cls, blacklist_weight_modules)
  THEN "no_decay"
  ELSE "neither"

\* fpn = '%s.%s' % (mn, pn) if mn else pn
fpn(pr) == pr.mn \o pr.pn

\* configure_optimizers is entered.
configure_start ==
  /\ pc = "constructed"
  /\ opt_pc = "idle"
  /\ opt_pc' = "loop"
  /\ visited' = 0
  /\ decay' = {}
  /\ no_decay' = {}
  /\ UNCHANGED <<extra, optimizer, straight_through, qvars, nvars>>

\* One iteration of the inner loop.
configure_visit ==
  /\ opt_pc = "loop"
  /\ \E w \in {walk} : \E pr \in {IF visited < Len(w) THEN w[visited + 1] ELSE <<>>} :
       /\ visited < Len(w)
       /\ decay' = IF classify(pr) = "decay" THEN decay \cup {fpn(pr)} ELSE decay
       /\ no_decay' = IF classify(pr) = "no_decay" THEN no_decay \cup {fpn(pr)} ELSE no_decay
  /\ visited' = visited + 1
  /\ UNCHANGED <<extra, opt_pc, optimizer, straight_through, qvars, nvars>>

\* self.named_parameters(): every parameter once, by its full name
param_dict_keys ==
  UNION {{Append(named_modules[n].name, own_parameters(named_modules[n].cls)[j]) :
            j \in 1..Len(own_parameters(named_modules[n].cls))} :
         n \in 1..Len(named_modules)}

\* Lines 219-234: the two asserts, then the AdamW with its two groups.
validate ==
  /\ opt_pc = "loop"
  /\ visited = Len(walk)
  /\ IF decay \cap no_decay # {} \/ param_dict_keys \ (decay \cup no_decay) # {}
     THEN opt_pc' = "AssertionError" /\ UNCHANGED optimizer
     ELSE opt_pc' = "done" /\ optimizer' = [decay |-> decay, no_decay |-> no_decay]
  /\ UNCHANGED <<extra, visited, decay, no_decay, straight_through, qvars, nvars>>

\* What a subclass may register besides: nothing; a normalisation layer the
\* two lists do not name; a Conv2d subclass that holds an Embedding.
Extras ==
  {<<>>,
   <<[name |-> <<"norm">>, cls |-> "GroupNorm"]>>,
   <<[name |-> <<"head">>, cls |-> "EmbedConv"],
     [name |-> <<"head", "table">>, cls |-> "Embedding"]>>}

InitOpt == /\ Resting
           /\ vq_flavor \in {"vqvae", "gumbel"}
           /\ pc = "constructed"
           /\ encoder = encoder_layers
           /\ quantizer = QuantizerModule(vq_flavor)
           /\ decoder = decoder_layers
           /\ shapes = NoCall
           /\ extra \in Extras
           /\ opt_pc = "idle"
           /\ visited = 0
           /\ decay = {}
           /\ no_decay = {}
           /\ optimizer = "none"

NextOpt == \/ configure_start
           \/ configure_visit
           \/ validate

SpecOpt == InitOpt /\ [][NextOpt]_vars

\* ------------------------------------------------------------------ claims
IsCall == hist'.calls # hist.calls

\* C1: over any sequence of forward calls and mode toggles, seeding ran once
\* if some call was entered in training mode with the flag unset and not at
\* all otherwise, and a call seeds exactly when it is entered in training
\* mode with the flag unset (so never in evaluation mode, never with the flag
\* set, and in the first call that qualifies).
C1_SeedingExactlyOnce ==
  /\ hist.seedings = (IF hist.train_unset >= 1 THEN 1 ELSE 0)
  /\ ret.called => (ret.seeded <=> (ret.mode = "train" /\ ret.flag_before = 0))

C1_Witness ==
  /\ hist.calls >= 3
  /\ hist.seedings = 1
  /\ ret.called /\ ret.mode = "train" /\ ret.flag_before = 1 /\ ~ret.seeded

\* C2: a forward call made in evaluation mode leaves the codebook and the
\* flag as they were, whatever the flag's value.
C2_EvalCallFrame ==
  [][(IsCall /\ ~training) => (embed' = embed /\ data_initialized' = data_initialized)]_vars

C2_Witness ==
  /\ ret.called /\ ret.mode = "eval" /\ ret.flag_before = 0
  /\ data_initialized = 0
  /\ hist.train_unset = 0

\* The reference of C3: the squared distance, every difference taken.
BruteForce(a, b) == SumTo([d \in 1..Len(a) |-> (a[d] - b[d]) * (a[d] - b[d])], Len(a))

\* C3: the index returned for a location is that of a code at the least
\* squared distance from the projected vector there, and the lowest such
\* index, as a brute-force computation of every distance finds it.
C3_NearestLowestIndex ==
  ret.called =>
    \A i \in DOMAIN ret.out.ind :
      /\ ret.out.ind[i] \in DOMAIN embed
      /\ \A m \in DOMAIN embed :
           /\ BruteForce(ret.out.z_e[i], embed[ret.out.ind[i]])
                <= BruteForce(ret.out.z_e[i], embed[m])
           /\ m < ret.out.ind[i] =>
                BruteForce(ret.out.z_e[i], embed[ret.out.ind[i]])
                  < BruteForce(ret.out.z_e[i], embed[m])

\* A tie between two different codes, and a location whose nearest code is
\* not the first.
C3_Witness ==
  /\ ret.called
  /\ embed[0] # embed[1]
  /\ BruteForce(ret.out.z_e[1], embed[0]) = BruteForce(ret.out.z_e[1], embed[1])
  /\ ret.out.ind[1] = 0
  /\ ret.out.ind[2] = 1

\* The parameters by the class of the module that owns them.
OwnedBy(classes, p) ==
  {Append(named_modules[n].name, p) :
     n \in {m \in 1..Len(named_modules) :
              /\ named_modules[m].cls \in classes
              /\ \E j \in 1..Len(own_parameters(named_modules[m].cls)) :
                   own_parameters(named_modules[m].cls)[j] = p}}

AllClasses == {named_modules[n].cls : n \in 1..Len(named_modules)}

\* C5: for the VQVAE model, configure_optimizers ends with decay holding the
\* weights of Linear, Conv2d and ConvTranspose2d modules and no_decay every
\* bias and the weights of LayerNorm, BatchNorm2d and Embedding modules, two
\* disjoint sets whose union is every parameter name; and for any model, it
\* ends in an assertion error, with no optimizer created, exactly when a name
\* is in both sets or a parameter is in neither.
C5_DecayPartition ==
  opt_pc \in {"done", "AssertionError"} =>
    /\ extra = <<>> =>
         /\ opt_pc = "done"
         /\ decay = OwnedBy({"Linear", "Conv2d", "ConvTranspose2d"}, "weight")
         /\ no_decay = OwnedBy(AllClasses, "bias")
                         \cup OwnedBy({"LayerNorm", "BatchNorm2d", "Embedding"}, "weight")
         /\ decay \cap no_decay = {}
         /\ decay \cup no_decay = OwnedBy(AllClasses, "weight") \cup OwnedBy(AllClasses, "bias")
    /\ opt_pc = "AssertionError" <=>
         \/ \E name \in decay : name \in no_decay
         \/ \E name \in OwnedBy(AllClasses, "weight") \cup OwnedBy(AllClasses, "bias") :
              name \notin decay /\ name \notin no_decay
    /\ opt_pc = "AssertionError" => optimizer = "none"
    /\ opt_pc = "done" => optimizer = [decay |-> decay, no_decay |-> no_decay]

C5_Witness ==
  /\ opt_pc = "AssertionError"
  /\ <<"head", "table", "weight">> \in decay \cap no_decay

C7_StraightThroughGradient ==
  ret.called =>
    \A i \in DOMAIN ret.out.z_q : \A d \in Dims :
      \A l \in DOMAIN ret.out.z_q[i][d].g :
        ret.out.z_q[i][d].g[l] = (IF l = ZeLeaf(i, d) THEN 1 ELSE 0)

C7_Witness ==
  /\ ret.called
  /\ \A i \in DOMAIN ret.out.z_q : \E d \in Dims :
       ret.out.z_q[i][d].v # ret.out.z_e[i][d]

\* C4: the hardness a Gumbel forward call samples with is the configured
\* straight_through in training mode and on in evaluation mode, where the
\* mixing weights at every location are then one-hot, whatever the flag.
C4_EvalForcesHard ==
  ret.called =>
    /\ ret.hard = (IF ret.mode = "train" THEN straight_through ELSE TRUE)
    /\ ret.mode = "eval" =>
         \A i \in DOMAIN ret.soft_one_hot :
           \E n \in Codes :
             /\ ret.soft_one_hot[i][n] = ProbUnit
             /\ \A m \in Codes \ {n} : ret.soft_one_hot[i][m] = 0

C4_Witness ==
  /\ ret.called /\ ret.mode = "eval" /\ ~straight_through
  /\ ret.ind[1] # ret.ind[2]

\* C8: when the height and width of the input are divisible by 4, the encoder
\* output is [B, num_hiddens, H/4, W/4], the quantizer returns z_q of shape
\* [B, embedding_dim, H/4, W/4] and ind of shape [B, H/4, W/4], and the
\* reconstruction has the input's shape [B, 3, H, W].
C8_RoundTripShape ==
  (shapes.called /\ shapes.x[3] % 4 = 0 /\ shapes.x[4] % 4 = 0) =>
    /\ shapes.z = <<shapes.x[1], num_hiddens, shapes.x[3] \div 4, shapes.x[4] \div 4>>
    /\ shapes.z_q = <<shapes.x[1], embedding_dim, shapes.x[3] \div 4, shapes.x[4] \div 4>>
    /\ shapes.ind = <<shapes.x[1], shapes.x[3] \div 4, shapes.x[4] \div 4>>
    /\ shapes.x_hat = <<shapes.x[1], in_channel, shapes.x[3], shapes.x[4]>>

C8_Witness ==
  /\ shapes.called
  /\ shapes.x = <<2, 3, 8, 4>>
  /\ quantizer = "GumbelQuantize"

\* C9: with a selector that is neither 'vqvae' nor 'gumbel', __init__ ends in
\* an error with no quantizer and no decoder created and no model returned;
\* with a recognised selector the quantizer built is the class it names.
C9_UnknownSelectorFails ==
  /\ vq_flavor \notin {"vqvae", "gumbel"} =>
       /\ quantizer = "none" /\ decoder = <<>>
       /\ pc \in {"new", "encoder", "KeyError"}
       /\ encoder # <<>> => pc = "KeyError" \/ (ENABLED init_quantizer)
  /\ quantizer # "none" =>
       /\ vq_flavor = "vqvae" => quantizer = "VQVAEQuantize"
       /\ vq_flavor = "gumbel" => quantizer = "GumbelQuantize"

C9_Witness == pc = "KeyError" /\ vq_flavor = "soft" /\ encoder # <<>>

\* C10: in every forward call, seeding or not, each returned index is a code
\* index and the returned z_q at a location is the vector the codebook, as it
\* stands when the call returns, holds at the index returned for it.
C10_GatheredFromCodebook ==
  [][IsCall =>
       \A i \in DOMAIN ret'.out.ind :
         /\ ret'.out.ind[i] \in 0..(NEmbed - 1)
         /\ \A d \in Dims : ret'.out.z_q[i][d].v = embed'[ret'.out.ind[i]][d]]_vars

C10_Witness ==
  /\ ret.called /\ ret.seeded
  /\ \E i \in DOMAIN ret.out.ind : ret.out.ind[i] = 1
  /\ \E i \in DOMAIN ret.out.ind : \E d \in Dims : ret.out.z_q[i][d].v # ret.out.z_e[i][d]

====
